---- MODULE Spec2Model ----
(***************************************************************************)
(* Model of the interactive graph visualisation engine of healui-labs:     *)
(* the derived pipeline of GraphCanvasOptimized (nodeImportance ->         *)
(* clusteredData -> visibleData -> renderNodes), the drag handlers of both *)
(* canvas variants, and the link filter of D3ForceGraph.                   *)
(*                                                                         *)
(* Strings that the code only compares (ids, type names) are TLA+ strings. *)
(* Labels and search queries, which the code lower-cases and searches for  *)
(* substrings, are sequences of one-character strings.  Zoom factors are   *)
(* kept in tenths (7 is 0.7).                                              *)
(***************************************************************************)
EXTENDS Integers, Sequences, FiniteSets, TLC

(***************************************************************************)
(* Bounds of the model.                                                    *)
(***************************************************************************)
MaxNodes == 3
MaxEdges == 3
\* the props of the component, scaled to graphs of MaxNodes nodes
\* (the code's defaults are clusterThreshold = 10 and maxVisibleNodes = 100)
ThresholdProp == 1
CapProp == 2
\* the node count from which GraphCanvasOptimized treats a graph as large, scaled
\* (the code's constant is 100)
LargeGraphNodes == 2
\* positions are the points 0..MaxCoord
MaxCoord == 1
\* the most iterations of a synchronous pre-step (300 in the source, scaled with
\* LargeGraphNodes so that both arms of the minimum are taken)
PreStepLimit == 7

\* the history keeps HistoryLimit snapshots (50 in the store), and the editor works
\* with MaxEdits nodes and edges
HistoryLimit == 2
MaxEdits == 1

(***************************************************************************)
(* Program constants (zoom factors in tenths).                             *)
(***************************************************************************)
LodZoomTenths == 7
CullZoomTenths == 5
CullImportanceTenths == 3

\* the scale extents of the zoom behaviours, in tenths: [0.1, 10] in D3ForceGraph,
\* [0.1, 4] in GraphCanvasOptimized
MinZoomTenths == 1
MaxZoomTenths == 100
OptimizedMaxZoomTenths == 40

(***************************************************************************)
(* The data universe: two of the node types and two of the edge types of   *)
(* the store's initial filter, node ids, and the labels the nodes carry.   *)
(***************************************************************************)
NodeTypeUniverse == {"exercise", "equipment"}

EdgeTypeUniverse == {"treats", "requires"}

NodeIds == <<"n1", "n2", "n3", "n4", "n5">>

NodeLabels == << <<"K", "n", "e", "e">>, <<"a", "n", "k", "l", "e">>,
                 <<"k", "N", "o", "t">>, <<"h", "i", "p">>, <<"K">> >>

ClusterIds == {"cluster_exercise", "cluster_equipment"}

\* `cluster_${node.type}`
ClusterIdOf(t) ==
  CASE t = "exercise"  -> "cluster_exercise"
    [] t = "equipment" -> "cluster_equipment"

\* the characters of a type name, as the template literal of the label spells them
TypeChars(t) ==
  CASE t = "exercise"  -> <<"e", "x", "e", "r", "c", "i", "s", "e">>
    [] t = "equipment" -> <<"e", "q", "u", "i", "p", "m", "e", "n", "t">>

\* decimal digits of a natural number, as number-to-string conversion gives them
RECURSIVE Digits(_)
Digits(n) ==
  LET d == <<"0", "1", "2", "3", "4", "5", "6", "7", "8", "9">>[(n % 10) + 1]
  IN IF n < 10 THEN <<d>> ELSE Digits(n \div 10) \o <<d>>

\* `${nodes[0].type} cluster (${nodes.length})`
ClusterLabel(t, n) ==
  TypeChars(t) \o <<" ", "c", "l", "u", "s", "t", "e", "r", " ", "(">> \o Digits(n) \o <<")">>

\* String.prototype.toLowerCase on the characters the model uses
LowerChar(c) ==
  CASE c = "K" -> "k"
    [] c = "N" -> "n"
    [] c = "C" -> "c"
    [] c = "L" -> "l"
    [] OTHER   -> c

ToLowerCase(s) == [i \in 1..Len(s) |-> LowerChar(s[i])]

\* String.prototype.includes
Includes(hay, needle) ==
  \E i \in 0..(Len(hay) - Len(needle)) :
    \A j \in 1..Len(needle) : hay[i + j] = needle[j]

(***************************************************************************)
(* Sequence helpers standing for Array.prototype methods.                  *)
(***************************************************************************)
SeqToSet(s) == {s[i] : i \in 1..Len(s)}

\* Array.prototype.includes on an array of ids
SeqIncludes(s, x) == \E i \in 1..Len(s) : s[i] = x

IdsOf(ns) == [i \in 1..Len(ns) |-> ns[i].id]

\* a node of the store, as the pipeline reads it
PlainNode(i, t) ==
  [id |-> NodeIds[i], label |-> NodeLabels[i], type |-> t,
   isClusterNode |-> FALSE, childNodes |-> <<>>]

(***************************************************************************)
(* nodeImportance: degree centrality over the full graph.                  *)
(***************************************************************************)
Degree(id, es) ==
  Cardinality({k \in 1..Len(es) : es[k].source = id \/ es[k].target = id})

\* nodeImportance.get(id) || 0
ImportanceOf(id, ns, es) ==
  IF \E i \in 1..Len(ns) : ns[i].id = id THEN Degree(id, es) ELSE 0

(***************************************************************************)
(* clusteredData                                                           *)
(***************************************************************************)
\* keys of the `clusters` Map in insertion order: active types by first occurrence
RECURSIVE ClusterKeyTypes(_, _)
ClusterKeyTypes(ns, active) ==
  IF ns = <<>> THEN <<>>
  ELSE LET front == ClusterKeyTypes(SubSeq(ns, 1, Len(ns) - 1), active)
           t == ns[Len(ns)].type
       IN IF t \in active /\ ~SeqIncludes(front, t) THEN Append(front, t) ELSE front

NodesOfType(ns, t) == SelectSeq(ns, LAMBDA n : n.type = t)

\* a variant that collapses a group from the threshold on
IsCollapsedFromThreshold(ns, t, threshold, expanded) ==
  Len(NodesOfType(ns, t)) >= threshold /\ ClusterIdOf(t) \notin expanded

IsCollapsed(ns, t, threshold, expanded) ==
  Len(NodesOfType(ns, t)) > threshold /\ ClusterIdOf(t) \notin expanded

ClusterNode(ns, t) ==
  [id |-> ClusterIdOf(t),
   label |-> ClusterLabel(t, Len(NodesOfType(ns, t))),
   type |-> "cluster",
   isClusterNode |-> TRUE,
   childNodes |-> IdsOf(NodesOfType(ns, t))]

\* clusters.forEach: the cluster nodes pushed, in key order
RECURSIVE ClusterNodesOf(_, _, _, _)
ClusterNodesOf(ns, keys, threshold, expanded) ==
  IF keys = <<>> THEN <<>>
  ELSE LET rest == ClusterNodesOf(ns, Tail(keys), threshold, expanded)
       IN IF IsCollapsed(ns, Head(keys), threshold, expanded)
            THEN <<ClusterNode(ns, Head(keys))>> \o rest
            ELSE rest

\* clusters.forEach: the groups pushed to remainingNodes, in key order
RECURSIVE GroupRemaining(_, _, _, _)
GroupRemaining(ns, keys, threshold, expanded) ==
  IF keys = <<>> THEN <<>>
  ELSE LET rest == GroupRemaining(ns, Tail(keys), threshold, expanded)
       IN IF IsCollapsed(ns, Head(keys), threshold, expanded)
            THEN rest
            ELSE NodesOfType(ns, Head(keys)) \o rest

\* the mutant of SecondPass: the second pass pushes every node
SecondPassOfEveryNode(ns, active, expanded) == ns

\* "Add non-clustered nodes": the second pass over data.nodes
SecondPass(ns, active, expanded) ==
  SelectSeq(ns, LAMBDA n : n.type \notin active \/ ClusterIdOf(n.type) \in expanded)

\* one endpoint pushed through clusterNodes.forEach
RECURSIVE RewriteEndpoint(_, _)
RewriteEndpoint(id, cs) ==
  IF cs = <<>> THEN id
  ELSE RewriteEndpoint(IF SeqIncludes(Head(cs).childNodes, id) THEN Head(cs).id ELSE id,
                       Tail(cs))

UpdatedEdges(es, cs) ==
  [k \in 1..Len(es) |->
     [es[k] EXCEPT !.source = RewriteEndpoint(es[k].source, cs),
                   !.target = RewriteEndpoint(es[k].target, cs)]]

\* the Map key `${e.source}-${e.target}`
EdgeKey(e) == <<e.source, e.target>>

\* new Map(entries).values(): one entry per key, at the position of the key's first
\* occurrence, holding the value of its last occurrence
UniqueEdges(es) ==
  LET firsts == {k \in 1..Len(es) : \A j \in 1..(k - 1) : EdgeKey(es[j]) # EdgeKey(es[k])}
      LastOf(k) == CHOOSE j \in 1..Len(es) :
                     /\ EdgeKey(es[j]) = EdgeKey(es[k])
                     /\ \A i \in (j + 1)..Len(es) : EdgeKey(es[i]) # EdgeKey(es[k])
      RECURSIVE Build(_)
      Build(k) ==
        IF k > Len(es) THEN <<>>
        ELSE IF k \in firsts THEN <<es[LastOf(k)]>> \o Build(k + 1)
        ELSE Build(k + 1)
  IN Build(1)

ClusteredData(ns, es, active, enable, threshold, expanded) ==
  IF ~enable \/ Len(ns) < threshold
    THEN [nodes |-> ns, edges |-> es]
    ELSE LET keys == ClusterKeyTypes(ns, active)
             cs == ClusterNodesOf(ns, keys, threshold, expanded)
             remaining == GroupRemaining(ns, keys, threshold, expanded)
                            \o SecondPass(ns, active, expanded)
         IN [nodes |-> remaining \o cs,
             edges |-> UniqueEdges(UpdatedEdges(es, cs))]

(***************************************************************************)
(* visibleData, one operator per step; each step reads the result of the   *)
(* previous one.                                                           *)
(***************************************************************************)
\* a variant of the search filter that leaves the edges alone
SearchStageKeepingEdges(vd, query) ==
  IF query = <<>> THEN vd
  ELSE LET lowered == ToLowerCase(query)
       IN [nodes |-> SelectSeq(vd.nodes, LAMBDA n : Includes(ToLowerCase(n.label), lowered)),
           edges |-> vd.edges]

\* "Apply search filter"
SearchStage(vd, query) ==
  IF query = <<>> THEN vd
  ELSE LET lowered == ToLowerCase(query)
           matchingNodeIds ==
             {vd.nodes[i].id : i \in {j \in 1..Len(vd.nodes) :
                 Includes(ToLowerCase(vd.nodes[j].label), lowered)}}
       IN [nodes |-> SelectSeq(vd.nodes, LAMBDA n : n.id \in matchingNodeIds),
           edges |-> SelectSeq(vd.edges, LAMBDA e : e.source \in matchingNodeIds
                                                    /\ e.target \in matchingNodeIds)]

\* "Apply type filters"
TypeStage(vd, active, activeEdges) ==
  [nodes |-> SelectSeq(vd.nodes, LAMBDA n : n.type \in active \/ n.isClusterNode),
   edges |-> SelectSeq(vd.edges, LAMBDA e : e.type \in activeEdges)]

\* one element put into a list already in descending order of weight, behind the
\* elements of the same weight
RECURSIVE InsertByImportance(_, _, _, _)
InsertByImportance(sorted, n, ns, es) ==
  IF sorted = <<>> THEN <<n>>
  ELSE IF ImportanceOf(Head(sorted).id, ns, es) >= ImportanceOf(n.id, ns, es)
         THEN <<Head(sorted)>> \o InsertByImportance(Tail(sorted), n, ns, es)
         ELSE <<n>> \o sorted

\* [...visibleNodes].sort((a, b) => importance(b) - importance(a)): a stable sort,
\* so equal weights keep their order
RECURSIVE SortByImportance(_, _, _)
SortByImportance(vs, ns, es) ==
  IF vs = <<>> THEN <<>>
  ELSE InsertByImportance(SortByImportance(SubSeq(vs, 1, Len(vs) - 1), ns, es),
                          vs[Len(vs)], ns, es)

\* Array.prototype.slice(0, n)
SliceTo(s, n) == SubSeq(s, 1, IF n < Len(s) THEN n ELSE Len(s))

\* "Apply importance-based filtering for large graphs"
\* a variant that engages the cap from the limit on
CapEngagesFromLimit(vd, mode, cap) == mode = "important" /\ Len(vd.nodes) >= cap

CapEngages(vd, mode, cap) == mode = "important" /\ Len(vd.nodes) > cap

CapStage(vd, mode, cap, ns, es) ==
  IF CapEngages(vd, mode, cap)
    THEN LET topNodes == SeqToSet(IdsOf(SliceTo(SortByImportance(vd.nodes, ns, es), cap)))
         IN [nodes |-> SelectSeq(vd.nodes, LAMBDA n : n.id \in topNodes),
             edges |-> SelectSeq(vd.edges, LAMBDA e : e.source \in topNodes
                                                      /\ e.target \in topNodes)]
    ELSE vd

\* "Apply level-of-detail based on zoom": Math.max of no value is -Infinity, which
\* every weight reaches
ZoomStage(vd, zoom, ns, es) ==
  IF zoom < CullZoomTenths
    THEN LET weights == {Degree(ns[i].id, es) : i \in 1..Len(ns)}
             Passes(n) ==
               \/ n.isClusterNode
               \/ \A w \in weights :
                    10 * ImportanceOf(n.id, ns, es) >= CullImportanceTenths * w
         IN [nodes |-> SelectSeq(vd.nodes, Passes), edges |-> vd.edges]
    ELSE vd

VisibleData(cd, query, active, activeEdges, mode, cap, zoom, ns, es) ==
  ZoomStage(
    CapStage(TypeStage(SearchStage(cd, query), active, activeEdges), mode, cap, ns, es),
    zoom, ns, es)

\* the dependency lists of the two useMemo hooks
ClusteredDataDeps(d, active, enable, threshold, expanded) ==
  <<d, active, enable, threshold, expanded>>

\* a variant of the dependency list that leaves zoomLevel out
VisibleDataDepsWithoutZoom(cd, query, active, activeEdges, mode, cap, zoom) ==
  <<cd, query, active, activeEdges, mode, cap>>

VisibleDataDeps(cd, query, active, activeEdges, mode, cap, zoom) ==
  <<cd, query, active, activeEdges, mode, cap, zoom>>

(***************************************************************************)
(* renderNodes: the detail tier drawn for the entering nodes.              *)
(***************************************************************************)
DetailTier(zoom) == IF zoom > LodZoomTenths THEN "full" ELSE "reduced"

(***************************************************************************)
(* State.  The store (graphStore.ts): data, nodeTypes, edgeTypes,          *)
(* searchQuery.  The component (GraphCanvasOptimized.tsx): its props, its  *)
(* useState cells, the values its useMemo hooks hold, and the tier drawn.  *)
(* The mounted canvas (either variant): the position the store keeps for   *)
(* each node, the nodes and links handed to the force simulation, and the  *)
(* drag gesture in progress.                                               *)
(***************************************************************************)
VARIABLES data, nodeTypes, edgeTypes, searchQuery,
          maxVisibleNodes, enableClustering, clusterThreshold,
          expandedClusters, visibilityMode, zoomLevel,
          clusteredData, visibleData, drawnTier,
          component,     \* which canvas is mounted; "none" while only the pipeline is studied
          positions,     \* node id -> <<>> (node.position undefined) or <<p>>
          simNodes,      \* the simulation's nodes: [id, x, fx, isClusterNode]
          links,         \* the links handed to d3.forceLink
          renderFailed,  \* d3.forceLink threw on a link whose endpoint is no node
          painted,       \* per drawn node: <<>> (no transform set yet) or <<x>> as painted
          simRunning,    \* the simulation's timer is ticking
          alphaTarget,   \* in tenths
          dragging,      \* index in simNodes of the node under the pointer, 0 if none
          pointer,       \* event.x of the latest drag event of the gesture
          released,      \* <<[id, p]>> from a release at pointer p until the next tick
          tickedSinceMove,   \* a tick ran after the latest drag event of the gesture
          selectedNodeIds,   \* store: selection.selectedNodeIds
          selectedEdgeIds,   \* store: selection.selectedEdgeIds
          lastSelected,      \* store: selection.lastSelected, <<>> or <<id>>
          history,           \* store: history, snapshots [nodes, edges, positions]
          historyIndex,      \* store: historyIndex, counted from 0
          viewport,          \* store: viewport, as [x, zoom], zoom in tenths
          transform,         \* the d3 zoom transform of the mounted canvas, as [x, k]
          mounted,           \* the canvas is on the page
          ownTimer,          \* the stop timer of the latest render is pending
          staleTimers,       \* a stop timer of an earlier render is pending
          forceInterval,     \* D3ForceGraph's applyGentleForces interval is set
          isSimulationRunning,   \* GraphCanvasOptimized's useState cell
          lateWrite          \* a timer or simulation callback ran after the unmount

storeVars == <<data, nodeTypes, edgeTypes, searchQuery>>
propVars == <<maxVisibleNodes, enableClustering, clusterThreshold>>
cellVars == <<expandedClusters, visibilityMode, zoomLevel>>
memoVars == <<clusteredData, visibleData, drawnTier>>
simVars == <<component, positions, simNodes, links, renderFailed, painted, simRunning,
             alphaTarget, dragging, pointer, released, tickedSinceMove>>
selVars == <<selectedNodeIds, selectedEdgeIds, lastSelected>>
histVars == <<history, historyIndex>>
viewVars == <<viewport, transform>>
lifeVars == <<mounted, ownTimer, staleTimers, forceInterval, isSimulationRunning,
              lateWrite>>
uiVars == <<selVars, histVars, viewVars, lifeVars>>
vars == <<storeVars, propVars, cellVars, memoVars, simVars, uiVars>>

\* the store's initial viewport, zoom in tenths
Identity == [x |-> 0, zoom |-> 10]

\* what JSON.parse(JSON.stringify(state.data)) copies: the nodes with their positions,
\* and the edges
Snapshot(d, pos) == [nodes |-> d.nodes, edges |-> d.edges, positions |-> pos]

\* the store's initial selection and viewport, the history setGraphData leaves
InitStoreUi ==
  /\ selectedNodeIds = {}
  /\ selectedEdgeIds = {}
  /\ lastSelected = <<>>
  /\ history = <<Snapshot(data, positions)>>
  /\ historyIndex = 0
  /\ viewport = Identity
  /\ transform = [x |-> 0, k |-> 10]

\* a canvas on the page, its timers not studied
InitIdle ==
  /\ mounted = TRUE
  /\ ownTimer = FALSE
  /\ staleTimers = FALSE
  /\ forceInterval = FALSE
  /\ isSimulationRunning = FALSE
  /\ lateWrite = FALSE

InitUi == InitStoreUi /\ InitIdle

(***************************************************************************)
(* The graphs the store is loaded with: up to MaxNodes nodes of any type   *)
(* and any sub-list of EdgePool.                                           *)
(***************************************************************************)
VisibilityModes == {"all", "important", "filtered"}

ZoomLevels == {4, 7, 10}

SearchQueries == {<<>>, <<"k", "N">>, <<"c", "l">>}

NodeLists ==
  UNION {{[i \in 1..k |-> PlainNode(i, f[i])] : f \in [1..k -> NodeTypeUniverse]} :
           k \in 0..MaxNodes}

\* the edges a loaded graph is drawn from, in the order the loader appends them: the
\* first two make the chain n1 -> n2 -> n3, the third is a second edge, of another type,
\* between n1 and n2, the last two touch the further nodes
EdgePool ==
  << [id |-> "e1", source |-> "n1", target |-> "n2", type |-> "treats"],
     [id |-> "e2", source |-> "n2", target |-> "n3", type |-> "requires"],
     [id |-> "e3", source |-> "n1", target |-> "n2", type |-> "requires"],
     [id |-> "e4", source |-> "n4", target |-> "n1", type |-> "treats"],
     [id |-> "e5", source |-> "n3", target |-> "n5", type |-> "treats"] >>

\* the first k edges of EdgePool; an edge whose endpoint no node carries references
\* a missing node
EdgeLists == {SubSeq(EdgePool, 1, k) : k \in 0..MaxEdges}

\* GraphCanvasOptimized's hooks on a loaded store, the page passing the props cap and
\* threshold
InitWith(cap, threshold) ==
  /\ \E ns \in NodeLists, es \in EdgeLists : data = [nodes |-> ns, edges |-> es]
  /\ nodeTypes = NodeTypeUniverse
  /\ edgeTypes = EdgeTypeUniverse
  /\ searchQuery = <<>>
  /\ maxVisibleNodes = cap
  /\ enableClustering = TRUE
  /\ clusterThreshold = threshold
  /\ expandedClusters = {}
  /\ visibilityMode = "important"
  /\ zoomLevel = 10
  /\ clusteredData = ClusteredData(data.nodes, data.edges, nodeTypes, enableClustering,
                                   clusterThreshold, expandedClusters)
  /\ visibleData = VisibleData(clusteredData, searchQuery, nodeTypes, edgeTypes,
                               visibilityMode, maxVisibleNodes, zoomLevel,
                               data.nodes, data.edges)
  /\ drawnTier = DetailTier(zoomLevel)
  /\ component = "none"
  /\ positions = [id \in SeqToSet(IdsOf(data.nodes)) |-> <<>>]
  /\ simNodes = <<>>
  /\ links = <<>>
  /\ renderFailed = FALSE
  /\ painted = <<>>
  /\ simRunning = FALSE
  /\ alphaTarget = 0
  /\ dragging = 0
  /\ pointer = 0
  /\ released = <<>>
  /\ tickedSinceMove = FALSE
  /\ InitUi

Init == InitWith(CapProp, ThresholdProp)

\* The re-render that follows every state change: each useMemo hook recomputes when
\* one of its dependencies changed, and render() redraws every node.
Rerender ==
  /\ clusteredData' =
       IF ClusteredDataDeps(data', nodeTypes', enableClustering', clusterThreshold',
                            expandedClusters')
            = ClusteredDataDeps(data, nodeTypes, enableClustering, clusterThreshold,
                                expandedClusters)
         THEN clusteredData
         ELSE ClusteredData(data'.nodes, data'.edges, nodeTypes', enableClustering',
                            clusterThreshold', expandedClusters')
  /\ visibleData' =
       IF VisibleDataDeps(clusteredData', searchQuery', nodeTypes', edgeTypes',
                          visibilityMode', maxVisibleNodes', zoomLevel')
            = VisibleDataDeps(clusteredData, searchQuery, nodeTypes, edgeTypes,
                              visibilityMode, maxVisibleNodes, zoomLevel)
         THEN visibleData
         ELSE VisibleData(clusteredData', searchQuery', nodeTypes', edgeTypes',
                          visibilityMode', maxVisibleNodes', zoomLevel',
                          data'.nodes, data'.edges)
  /\ drawnTier' = DetailTier(zoomLevel')

\* GraphSearch.handleNodeTypeToggle -> setNodeTypeFilter
HandleNodeTypeToggle(t) ==
  /\ nodeTypes' = IF t \in nodeTypes THEN nodeTypes \ {t} ELSE nodeTypes \cup {t}
  /\ UNCHANGED <<data, edgeTypes, searchQuery, propVars, cellVars, simVars, uiVars>>
  /\ Rerender

\* GraphSearch.handleEdgeTypeToggle -> setEdgeTypeFilter
HandleEdgeTypeToggle(t) ==
  /\ edgeTypes' = IF t \in edgeTypes THEN edgeTypes \ {t} ELSE edgeTypes \cup {t}
  /\ UNCHANGED <<data, nodeTypes, searchQuery, propVars, cellVars, simVars, uiVars>>
  /\ Rerender

\* GraphSearch search box -> setSearchQuery
SetSearchQuery(q) ==
  /\ q # searchQuery
  /\ searchQuery' = q
  /\ UNCHANGED <<data, nodeTypes, edgeTypes, propVars, cellVars, simVars, uiVars>>
  /\ Rerender

\* the "Performance Mode" selector
SetVisibilityMode(m) ==
  /\ m # visibilityMode
  /\ visibilityMode' = m
  /\ UNCHANGED <<storeVars, propVars, expandedClusters, zoomLevel, simVars, uiVars>>
  /\ Rerender

\* the zoom handler: setZoomLevel(transform.k)
ZoomTo(z) ==
  /\ z # zoomLevel
  /\ zoomLevel' = z
  /\ UNCHANGED <<storeVars, propVars, expandedClusters, visibilityMode, simVars, uiVars>>
  /\ Rerender

\* a click on a drawn cluster node: handleClusterClick
HandleClusterClick(c) ==
  /\ \E i \in 1..Len(visibleData.nodes) :
       visibleData.nodes[i].isClusterNode /\ visibleData.nodes[i].id = c
  /\ expandedClusters' = IF c \in expandedClusters THEN expandedClusters \ {c}
                         ELSE expandedClusters \cup {c}
  /\ UNCHANGED <<storeVars, propVars, visibilityMode, zoomLevel, simVars, uiVars>>
  /\ Rerender

\* the "Collapse All" button, shown while a cluster is expanded
CollapseAll ==
  /\ expandedClusters # {}
  /\ expandedClusters' = {}
  /\ UNCHANGED <<storeVars, propVars, visibilityMode, zoomLevel, simVars, uiVars>>
  /\ Rerender

Next ==
  \/ \E t \in NodeTypeUniverse : HandleNodeTypeToggle(t)
  \/ \E t \in EdgeTypeUniverse : HandleEdgeTypeToggle(t)
  \/ \E q \in SearchQueries : SetSearchQuery(q)
  \/ \E m \in VisibilityModes : SetVisibilityMode(m)
  \/ \E z \in ZoomLevels : ZoomTo(z)
  \/ \E c \in ClusterIds : HandleClusterClick(c)
  \/ CollapseAll

Spec == Init /\ [][Next]_vars

\* the same hooks under other props: a cap of zero, and a threshold that is either
\* ThresholdProp or above the size of every graph loaded
InitProps == \E threshold \in {ThresholdProp, MaxNodes + 1} : InitWith(0, threshold)

SpecProps == InitProps /\ [][Next]_vars

(***************************************************************************)
(* The mounted canvas: simulation set-up, drag handlers and ticks of       *)
(* D3ForceGraph and GraphCanvasOptimized.  A position is one of Points;    *)
(* the handlers always write x and y together, so a point stands for the   *)
(* pair.  An optional value is <<>> (undefined, null) or <<v>>.            *)
(***************************************************************************)
Points == 0..MaxCoord

Components == {"D3ForceGraph", "GraphCanvasOptimized"}

\* node.position of a store node; a cluster node has none
PositionOf(id, pos) == IF id \in DOMAIN pos THEN pos[id] ELSE <<>>

\* D3ForceGraph: "Convert data to D3 format"
D3ForceGraphNodes(ns, pos) ==
  [i \in 1..Len(ns) |->
     [id |-> ns[i].id, x |-> PositionOf(ns[i].id, pos), fx |-> <<>>,
      isClusterNode |-> FALSE]]

\* the mutant of D3Links: an edge is kept as soon as one endpoint exists
D3LinksEitherEndpoint(ns, es) ==
  LET nodeIds == SeqToSet(IdsOf(ns))
      Keep(edge) == ~(~(edge.source \in nodeIds) /\ ~(edge.target \in nodeIds))
  IN SelectSeq(es, Keep)

\* D3ForceGraph: "Filter out edges that reference non-existent nodes"
D3Links(ns, es) ==
  LET nodeIds == SeqToSet(IdsOf(ns))
      Keep(edge) == ~(~(edge.source \in nodeIds) \/ ~(edge.target \in nodeIds))
  IN SelectSeq(es, Keep)

\* GraphCanvasOptimized.render: visibleData.nodes.map(...)
D3Nodes(ns, pos) ==
  [i \in 1..Len(ns) |->
     [id |-> ns[i].id, x |-> PositionOf(ns[i].id, pos), fx |-> <<>>,
      isClusterNode |-> ns[i].isClusterNode]]

\* d3.forceSimulation(nodes): a node without x is placed by its index
InitialLayout(i) == (i - 1) % (MaxCoord + 1)

InitializeNodes(nodes) ==
  [i \in 1..Len(nodes) |->
     [nodes[i] EXCEPT !.x = IF nodes[i].x = <<>> THEN InitialLayout(i) ELSE nodes[i].x[1]]]

\* d3.forceLink(links).id(d => d.id) resolves every endpoint and throws on a miss
LinkEndpointsResolve(nodes, ls) ==
  \A k \in 1..Len(ls) :
    /\ SeqIncludes(IdsOf(nodes), ls[k].source)
    /\ SeqIncludes(IdsOf(nodes), ls[k].target)

\* the mutant of TickNodes: the forces move every node, pinned or not
TickNodesIgnoringPins(nodes, m) == [i \in 1..Len(nodes) |-> [nodes[i] EXCEPT !.x = m[i]]]

\* one tick: a pinned node sits at fx, the forces move every other node to m[i]
TickNodes(nodes, m) ==
  [i \in 1..Len(nodes) |->
     [nodes[i] EXCEPT !.x = IF nodes[i].fx # <<>> THEN nodes[i].fx[1] ELSE m[i]]]

\* D3ForceGraph.initializeGraph: the simulation it creates never stops
InitializeGraph(ns, es, pos) ==
  LET nodes == InitializeNodes(D3ForceGraphNodes(ns, pos))
      d3Links == D3Links(ns, es)
  IN IF ~LinkEndpointsResolve(nodes, d3Links)
       THEN {[simNodes |-> <<>>, links |-> <<>>, renderFailed |-> TRUE,
              simRunning |-> FALSE]}
     ELSE {[simNodes |-> nodes, links |-> d3Links, renderFailed |-> FALSE,
            simRunning |-> TRUE]}

\* simulation.tick(Math.min(300, nodeCount * 2)): the number of synchronous iterations
PreStepTicks(nodeCount) ==
  IF PreStepLimit < nodeCount * 2 THEN PreStepLimit ELSE nodeCount * 2

\* GraphCanvasOptimized.render with initializeSimulation: a graph of more than
\* LargeGraphNodes nodes is stepped to rest at once and left stopped
Render(vd, pos) ==
  LET nodes == InitializeNodes(D3Nodes(vd.nodes, pos))
  IN IF ~LinkEndpointsResolve(nodes, vd.edges)
       THEN {[simNodes |-> <<>>, links |-> <<>>, renderFailed |-> TRUE,
              simRunning |-> FALSE]}
     ELSE IF Len(nodes) > LargeGraphNodes
       THEN {[simNodes |-> TickNodes(nodes, m), links |-> vd.edges,
              renderFailed |-> FALSE, simRunning |-> FALSE] :
               m \in [1..Len(nodes) -> Points]}
     ELSE {[simNodes |-> nodes, links |-> vd.edges, renderFailed |-> FALSE,
            simRunning |-> TRUE]}

Mounted(c, d, vd, pos) ==
  IF c = "D3ForceGraph" THEN InitializeGraph(d.nodes, d.edges, pos) ELSE Render(vd, pos)

\* graphStore.updateNodePosition
UpdateNodePosition(pos, nodeId, p) ==
  IF nodeId \in DOMAIN pos THEN [pos EXCEPT ![nodeId] = <<p>>] ELSE pos

\* the node groups a render appends carry no transform until a 'tick' listener runs
Unpainted(nodes) == [i \in 1..Len(nodes) |-> <<>>]

\* the effect that re-runs initializeGraph / render when its callback changed
Rebuild(changed, d, vd, pos) ==
  IF changed
    THEN \E s \in Mounted(component, d, vd, pos) :
           /\ simNodes' = s.simNodes
           /\ links' = s.links
           /\ renderFailed' = s.renderFailed
           /\ painted' = Unpainted(s.simNodes)
           /\ simRunning' = s.simRunning
    ELSE UNCHANGED <<simNodes, links, renderFailed, painted, simRunning>>

\* what a store write brings about in the mounted canvas: GraphCanvasOptimized's hooks
\* recompute, and the canvas is rebuilt when a dependency of its callback changed
Refresh(changed) ==
  /\ IF component = "GraphCanvasOptimized" THEN Rerender ELSE UNCHANGED memoVars
  /\ Rebuild(changed, data', visibleData', positions')

InitCanvas ==
  /\ \E ns \in NodeLists, es \in EdgeLists : data = [nodes |-> ns, edges |-> es]
  /\ nodeTypes = NodeTypeUniverse
  /\ edgeTypes = EdgeTypeUniverse
  /\ searchQuery = <<>>
  /\ maxVisibleNodes = CapProp
  /\ enableClustering = TRUE
  /\ clusterThreshold = ThresholdProp
  /\ component \in Components
  /\ expandedClusters \in
       IF component = "D3ForceGraph" THEN {{}}
       ELSE SUBSET {ClusterIdOf(data.nodes[i].type) : i \in 1..Len(data.nodes)}
  /\ visibilityMode = "important"
  /\ zoomLevel = 10
  /\ clusteredData = ClusteredData(data.nodes, data.edges, nodeTypes, enableClustering,
                                   clusterThreshold, expandedClusters)
  /\ visibleData = VisibleData(clusteredData, searchQuery, nodeTypes, edgeTypes,
                               visibilityMode, maxVisibleNodes, zoomLevel,
                               data.nodes, data.edges)
  /\ drawnTier = DetailTier(zoomLevel)
  /\ positions = [id \in SeqToSet(IdsOf(data.nodes)) |-> <<>>]
  /\ \E s \in Mounted(component, data, visibleData, positions) :
       /\ simNodes = s.simNodes
       /\ links = s.links
       /\ renderFailed = s.renderFailed
       /\ painted = Unpainted(s.simNodes)
       /\ simRunning = s.simRunning
  /\ alphaTarget = 0
  /\ dragging = 0
  /\ pointer = 0
  /\ released = <<>>
  /\ tickedSinceMove = FALSE
  /\ InitStoreUi

InitInteract == InitCanvas /\ InitIdle

\* the mutant of DragRestarts: a drag reheats a graph of any size
DragRestartsAnySize(c, nodeCount) == c = "GraphCanvasOptimized"

\* "if (!event.active && nodes.length < 100) simulation.alphaTarget(0.3).restart()";
\* D3ForceGraph's drag start does not touch its simulation
DragRestarts(c, nodeCount) == c = "GraphCanvasOptimized" /\ nodeCount < LargeGraphNodes

\* drag 'start' on the i-th drawn node
DragStart(i) ==
  /\ dragging = 0
  /\ i \in 1..Len(simNodes)
  /\ simNodes' = [simNodes EXCEPT ![i].fx = <<simNodes[i].x>>]
  /\ IF DragRestarts(component, Len(simNodes))
       THEN alphaTarget' = 3 /\ simRunning' = TRUE
       ELSE UNCHANGED <<alphaTarget, simRunning>>
  /\ dragging' = i
  /\ pointer' = simNodes[i].x
  /\ released' = <<>>
  /\ tickedSinceMove' = FALSE
  /\ UNCHANGED <<storeVars, propVars, cellVars, memoVars, uiVars, component, positions,
                 links, renderFailed, painted>>

\* drag 'drag': the pointer moved to p
DragMove(p) ==
  /\ dragging # 0
  /\ simNodes' = [simNodes EXCEPT ![dragging].fx = <<p>>]
  /\ pointer' = p
  /\ tickedSinceMove' = FALSE
  /\ UNCHANGED <<storeVars, propVars, cellVars, memoVars, uiVars, component, positions,
                 links, renderFailed, painted, simRunning, alphaTarget, dragging, released>>

\* drag 'end', and the re-render that a changed store brings about
DragEnd ==
  /\ dragging # 0
  /\ LET d == simNodes[dragging]
         newPos == IF component = "D3ForceGraph"
                     THEN UpdateNodePosition(positions, d.id, d.x)
                   ELSE IF ~d.isClusterNode
                     THEN UpdateNodePosition(positions, d.id, pointer)
                   ELSE positions
     IN /\ positions' = newPos
        /\ released' = <<[id |-> d.id, p |-> pointer]>>
        /\ alphaTarget' = IF component = "GraphCanvasOptimized" THEN 0 ELSE alphaTarget
        /\ IF newPos # positions
             THEN \E s \in Mounted(component, data, visibleData, newPos) :
                    /\ simNodes' = s.simNodes
                    /\ links' = s.links
                    /\ renderFailed' = s.renderFailed
                    /\ painted' = Unpainted(s.simNodes)
                    /\ simRunning' = s.simRunning
             ELSE /\ simNodes' = [simNodes EXCEPT ![dragging].fx = <<>>]
                  /\ UNCHANGED <<links, renderFailed, painted, simRunning>>
  /\ dragging' = 0
  /\ tickedSinceMove' = FALSE
  /\ UNCHANGED <<storeVars, propVars, cellVars, memoVars, uiVars, component, pointer>>

\* one tick of the running simulation; the 'tick' listeners then paint every node
\* at its new position
Tick(m) ==
  /\ simRunning
  /\ simNodes' = TickNodes(simNodes, m)
  /\ painted' = [i \in 1..Len(simNodes) |-> <<simNodes'[i].x>>]
  /\ released' = <<>>
  /\ tickedSinceMove' = (dragging # 0)
  /\ UNCHANGED <<storeVars, propVars, cellVars, memoVars, uiVars, component, positions,
                 links, renderFailed, simRunning, alphaTarget, dragging, pointer>>

NextInteract ==
  \/ \E i \in 1..(2 * MaxNodes) : DragStart(i)
  \/ \E p \in Points : DragMove(p)
  \/ DragEnd
  \/ \E m \in [1..Len(simNodes) -> Points] : Tick(m)

SpecInteract == InitInteract /\ [][NextInteract]_vars

(***************************************************************************)
(* Graph construction in D3ForceGraph: the dashboard page mounts the       *)
(* canvas on the store, empty at first, and hands it each graph it loads.  *)
(* GraphCanvasOptimized is not on that page: its hooks hold nothing.       *)
(***************************************************************************)
InitLoad ==
  /\ data = [nodes |-> <<>>, edges |-> <<>>]
  /\ nodeTypes = NodeTypeUniverse
  /\ edgeTypes = EdgeTypeUniverse
  /\ searchQuery = <<>>
  /\ maxVisibleNodes = CapProp
  /\ enableClustering = TRUE
  /\ clusterThreshold = ThresholdProp
  /\ expandedClusters = {}
  /\ visibilityMode = "important"
  /\ zoomLevel = 10
  /\ clusteredData = ClusteredData(data.nodes, data.edges, nodeTypes, enableClustering,
                                   clusterThreshold, expandedClusters)
  /\ visibleData = VisibleData(clusteredData, searchQuery, nodeTypes, edgeTypes,
                               visibilityMode, maxVisibleNodes, zoomLevel,
                               data.nodes, data.edges)
  /\ drawnTier = DetailTier(zoomLevel)
  /\ component = "D3ForceGraph"
  /\ positions = [id \in {} |-> <<>>]
  /\ \E s \in InitializeGraph(data.nodes, data.edges, positions) :
       /\ simNodes = s.simNodes
       /\ links = s.links
       /\ renderFailed = s.renderFailed
       /\ painted = Unpainted(s.simNodes)
       /\ simRunning = s.simRunning
  /\ alphaTarget = 0
  /\ dragging = 0
  /\ pointer = 0
  /\ released = <<>>
  /\ tickedSinceMove = FALSE
  /\ InitUi

\* what setGraphData writes, and the rebuild of the canvas that the new data brings about
LoadGraph(g) ==
  /\ g # data
  /\ data' = g
  /\ positions' = [id \in SeqToSet(IdsOf(g.nodes)) |-> <<>>]
  /\ history' = <<Snapshot(g, positions')>>
  /\ historyIndex' = 0
  /\ dragging' = 0
  /\ released' = <<>>
  /\ tickedSinceMove' = FALSE
  /\ UNCHANGED <<nodeTypes, edgeTypes, searchQuery, propVars, cellVars, selVars,
                 lifeVars, component, alphaTarget, pointer>>
  /\ Refresh(TRUE)

\* the mutant of SetGraphData: a reload that puts the viewport back to the identity
SetGraphDataResettingViewport(g) ==
  /\ LoadGraph(g)
  /\ viewport' = Identity
  /\ UNCHANGED transform

\* graphStore.setGraphData: the viewport is not among the fields it writes
SetGraphData(g) ==
  /\ LoadGraph(g)
  /\ UNCHANGED viewVars

NextLoad ==
  \/ \E ns \in NodeLists, es \in EdgeLists : SetGraphData([nodes |-> ns, edges |-> es])
  \/ \E m \in [1..Len(simNodes) -> Points] : Tick(m)

SpecLoad == InitLoad /\ [][NextLoad]_vars

(***************************************************************************)
(* Clicks: the click handlers of the two canvases and the selection        *)
(* actions of the store.  A click carries one of Modifiers.                *)
(***************************************************************************)
Modifiers == {"none", "ctrl", "meta", "shift"}

\* the multiSelect flag each canvas derives from the click event
MultiSelect(c, mod) ==
  IF c = "D3ForceGraph" THEN mod \in {"ctrl", "meta", "shift"}
  ELSE mod \in {"ctrl", "meta"}

\* the store's selection as one value
Selection == [nodes |-> selectedNodeIds, edges |-> selectedEdgeIds, last |-> lastSelected]

\* graphStore.selectNode
SelectNode(sel, nodeId, multi) ==
  [nodes |-> (IF multi THEN sel.nodes ELSE {}) \cup {nodeId},
   edges |-> IF multi THEN sel.edges ELSE {},
   last |-> <<nodeId>>]

\* graphStore.clearSelection
ClearSelection(sel) == [nodes |-> {}, edges |-> {}, last |-> <<>>]

SetSelection(sel) ==
  /\ selectedNodeIds' = sel.nodes
  /\ selectedEdgeIds' = sel.edges
  /\ lastSelected' = sel.last

\* the mutant of ClickTogglesCluster: every click goes to selectNode
ClickNeverTogglesCluster(c, d) == FALSE

\* GraphCanvasOptimized's click handler sends a cluster node to handleClusterClick
ClickTogglesCluster(c, d) == c = "GraphCanvasOptimized" /\ d.isClusterNode

\* a click on the i-th drawn node
NodeClick(i, mod) ==
  /\ mounted
  /\ dragging = 0
  /\ i \in 1..Len(simNodes)
  /\ UNCHANGED <<storeVars, propVars, visibilityMode, zoomLevel, component, positions,
                 alphaTarget, dragging, pointer, released, tickedSinceMove, histVars,
                 viewVars, lifeVars>>
  /\ LET d == simNodes[i]
     IN IF ClickTogglesCluster(component, d)
          THEN /\ expandedClusters' = IF d.id \in expandedClusters
                                        THEN expandedClusters \ {d.id}
                                        ELSE expandedClusters \cup {d.id}
               /\ UNCHANGED selVars
               /\ Rerender
               /\ Rebuild(TRUE, data, visibleData', positions)
          ELSE LET sel == SelectNode(Selection, d.id, MultiSelect(component, mod))
               IN /\ SetSelection(sel)
                  /\ UNCHANGED <<expandedClusters, memoVars>>
                  /\ Rebuild(sel # Selection, data, visibleData, positions)

\* the clear that a click on the background, or one that bubbles up to it, brings about
ClickClears ==
  /\ SetSelection(ClearSelection(Selection))
  /\ Rebuild(ClearSelection(Selection) # Selection, data, visibleData, positions)
  /\ UNCHANGED <<storeVars, propVars, cellVars, memoVars, component, positions,
                 alphaTarget, dragging, pointer, released, tickedSinceMove, histVars,
                 viewVars, lifeVars>>

\* a click on the k-th drawn edge: no canvas listens on edges; in D3ForceGraph the click
\* bubbles to the svg listener, in GraphCanvasOptimized the svg listener ignores it
EdgeClick(k, mod) ==
  /\ mounted
  /\ dragging = 0
  /\ k \in 1..Len(links)
  /\ IF component = "D3ForceGraph" THEN ClickClears ELSE UNCHANGED vars

\* a click on the empty background
BackgroundClick ==
  /\ mounted
  /\ dragging = 0
  /\ ClickClears

\* D3ForceGraph's Escape key: the explicit clear
EscapeKey ==
  /\ mounted
  /\ component = "D3ForceGraph"
  /\ ClickClears

NextSelect ==
  \/ \E i \in 1..(2 * MaxNodes), mod \in Modifiers : NodeClick(i, mod)
  \/ \E k \in 1..MaxEdges, mod \in Modifiers : EdgeClick(k, mod)
  \/ BackgroundClick
  \/ EscapeKey

\* either canvas just mounted, no cluster expanded yet
InitSelect == InitInteract /\ expandedClusters = {}

SpecSelect == InitSelect /\ [][NextSelect]_vars

(***************************************************************************)
(* The viewport: the zoom behaviour of each canvas, the store's viewport   *)
(* actions and the minimap.  Zoom factors are in tenths.                   *)
(***************************************************************************)
\* d3.zoom().scaleExtent of each canvas
ScaleExtent(c) ==
  IF c = "D3ForceGraph" THEN <<MinZoomTenths, MaxZoomTenths>>
  ELSE <<MinZoomTenths, OptimizedMaxZoomTenths>>

\* d3-zoom clamps the scale a gesture asks for to the scale extent
ConstrainScale(k, ext) == IF k < ext[1] THEN ext[1] ELSE IF k > ext[2] THEN ext[2] ELSE k

\* the scales a wheel or pinch gesture asks for: below, at and above each limit
ZoomTargets ==
  {MinZoomTenths - 1, MinZoomTenths, Identity.zoom, OptimizedMaxZoomTenths + 1,
   MaxZoomTenths, MaxZoomTenths + 1}

\* the store's viewport becomes v.  GraphCanvasOptimized's initializeCanvas depends on
\* the viewport: it runs again, hands the viewport to zoom.transform, and the 'zoom'
\* listener copies the scale into zoomLevel.  D3ForceGraph does not read the viewport.
WriteViewport(v) ==
  /\ viewport' = v
  /\ UNCHANGED <<storeVars, propVars, expandedClusters, visibilityMode, component,
                 positions, alphaTarget, dragging, pointer, released, tickedSinceMove,
                 selVars, histVars, lifeVars>>
  /\ IF component = "GraphCanvasOptimized"
       THEN /\ transform' = [x |-> v.x, k |-> v.zoom]
            /\ zoomLevel' = v.zoom
            /\ Refresh(v # viewport)
       ELSE UNCHANGED <<transform, zoomLevel, memoVars, simNodes, links, renderFailed, painted,
                        simRunning>>

\* the 'zoom' listener of the mounted canvas, called with the new transform t:
\* D3ForceGraph moves its container, GraphCanvasOptimized also writes the store
OnZoom(t) ==
  IF component = "D3ForceGraph"
    THEN /\ transform' = t
         /\ UNCHANGED <<storeVars, propVars, cellVars, memoVars, simVars, selVars,
                        histVars, viewport, lifeVars>>
    ELSE WriteViewport([x |-> t.x, zoom |-> t.k])

\* a wheel or pinch gesture asking for scale k; d3-zoom emits nothing when the clamped
\* scale is the current one
ZoomGesture(k) ==
  /\ mounted
  /\ dragging = 0
  /\ ConstrainScale(k, ScaleExtent(component)) # transform.k
  /\ OnZoom([x |-> transform.x, k |-> ConstrainScale(k, ScaleExtent(component))])

\* a pointer drag on the background, to translation x
PanGesture(x) ==
  /\ mounted
  /\ dragging = 0
  /\ x # transform.x
  /\ OnZoom([x |-> x, k |-> transform.k])

\* graphStore.resetViewport
ResetViewport == WriteViewport(Identity)

\* GraphMinimap's click: centre the viewport on the clicked point, keep the zoom
MinimapClick(x) == WriteViewport([x |-> x, zoom |-> viewport.zoom])

NextZoom ==
  \/ \E k \in ZoomTargets : ZoomGesture(k)
  \/ \E x \in Points : PanGesture(x)
  \/ ResetViewport
  \/ \E x \in Points : MinimapClick(x)

SpecZoom == InitSelect /\ [][NextZoom]_vars

(***************************************************************************)
(* The store's other actions, each with the re-render of the mounted       *)
(* canvas that it brings about: D3ForceGraph's initializeGraph depends on  *)
(* the data and the selection, GraphCanvasOptimized's render on the        *)
(* visible data, the selection and the viewport.                           *)
(***************************************************************************)
storeFrame == <<propVars, cellVars, component, alphaTarget, dragging, pointer, released,
                tickedSinceMove, viewVars, lifeVars>>

filterVars == <<nodeTypes, edgeTypes, searchQuery>>

\* node.position of every node of ns
PositionsFor(ns, pos) == [id \in SeqToSet(IdsOf(ns)) |-> PositionOf(id, pos)]

\* graphStore.selectEdge
SelectEdge(sel, edgeId, multi) ==
  [nodes |-> IF multi THEN sel.nodes ELSE {},
   edges |-> (IF multi THEN sel.edges ELSE {}) \cup {edgeId},
   last |-> <<edgeId>>]

\* graphStore.selectAll
SelectAll(sel, d) ==
  [nodes |-> SeqToSet(IdsOf(d.nodes)), edges |-> SeqToSet(IdsOf(d.edges)),
   last |-> sel.last]

\* the mutant of SaveToHistory: the index advances also when the oldest snapshot leaves
SaveToHistoryAlwaysAdvancing(h, i, snap) ==
  LET newHistory == Append(SubSeq(h, 1, i + 1), snap)
  IN IF Len(newHistory) > HistoryLimit
       THEN [history |-> Tail(newHistory), historyIndex |-> i + 1]
       ELSE [history |-> newHistory, historyIndex |-> i + 1]

\* graphStore.saveToHistory: the history afterwards, and the index
SaveToHistory(h, i, snap) ==
  LET newHistory == Append(SubSeq(h, 1, i + 1), snap)
  IN IF Len(newHistory) > HistoryLimit
       THEN [history |-> Tail(newHistory), historyIndex |-> i]
       ELSE [history |-> newHistory, historyIndex |-> i + 1]

\* a write of the data (with the positions its nodes carry) and of the node selection
WriteData(d, pos, selNodes, selEdges) ==
  /\ data' = d
  /\ positions' = pos
  /\ selectedNodeIds' = selNodes
  /\ selectedEdgeIds' = selEdges
  /\ UNCHANGED <<filterVars, storeFrame, lastSelected>>
  /\ Refresh(TRUE)

\* graphStore.addNode; the editor gives a new node a fresh id
AddNode(n) ==
  /\ n.id \notin SeqToSet(IdsOf(data.nodes))
  /\ UNCHANGED histVars
  /\ WriteData([data EXCEPT !.nodes = Append(@, n)],
               PositionsFor(Append(data.nodes, n), positions),
               selectedNodeIds, selectedEdgeIds)

\* graphStore.removeNode
RemoveNode(nodeId) ==
  /\ nodeId \in SeqToSet(IdsOf(data.nodes))
  /\ UNCHANGED histVars
  /\ LET ns == SelectSeq(data.nodes, LAMBDA n : n.id # nodeId)
         es == SelectSeq(data.edges, LAMBDA e : e.source # nodeId /\ e.target # nodeId)
     IN WriteData([nodes |-> ns, edges |-> es], PositionsFor(ns, positions),
                  selectedNodeIds \ {nodeId}, selectedEdgeIds)

\* graphStore.addEdge
AddEdge(e) ==
  /\ e.id \notin SeqToSet(IdsOf(data.edges))
  /\ UNCHANGED histVars
  /\ WriteData([data EXCEPT !.edges = Append(@, e)], positions,
               selectedNodeIds, selectedEdgeIds)

\* graphStore.removeEdge
RemoveEdge(edgeId) ==
  /\ edgeId \in SeqToSet(IdsOf(data.edges))
  /\ UNCHANGED histVars
  /\ WriteData([data EXCEPT !.edges = SelectSeq(@, LAMBDA e : e.id # edgeId)], positions,
               selectedNodeIds, selectedEdgeIds \ {edgeId})

\* graphStore.updateNodePosition, called on its own
MoveNode(nodeId, p) ==
  /\ nodeId \in DOMAIN positions
  /\ positions[nodeId] # <<p>>
  /\ UNCHANGED histVars
  /\ WriteData(data, UpdateNodePosition(positions, nodeId, p),
               selectedNodeIds, selectedEdgeIds)

\* a write of the selection that touches nothing else
WriteSelection(sel) ==
  /\ SetSelection(sel)
  /\ UNCHANGED <<storeVars, positions, storeFrame, histVars>>
  /\ Refresh(sel # Selection)

\* graphStore.selectEdge, as GraphCanvas (AuthHeader.tsx) calls it
SelectEdgeById(edgeId, multi) ==
  /\ edgeId \in SeqToSet(IdsOf(data.edges))
  /\ WriteSelection(SelectEdge(Selection, edgeId, multi))

SelectEverything == WriteSelection(SelectAll(Selection, data))

\* a write of the filter; D3ForceGraph does not read it
WriteFilter(types, etypes, q) ==
  /\ nodeTypes' = types
  /\ edgeTypes' = etypes
  /\ searchQuery' = q
  /\ UNCHANGED <<data, positions, storeFrame, selVars, histVars>>
  /\ Refresh(component = "GraphCanvasOptimized")

\* graphStore.setNodeTypeFilter
SetNodeTypeFilter(types) == types # nodeTypes /\ WriteFilter(types, edgeTypes, searchQuery)

\* graphStore.setEdgeTypeFilter
SetEdgeTypeFilter(types) == types # edgeTypes /\ WriteFilter(nodeTypes, types, searchQuery)

\* graphStore.setSearchQuery
SetQuery(q) == q # searchQuery /\ WriteFilter(nodeTypes, edgeTypes, q)

\* graphStore.saveToHistory
SaveHistory ==
  /\ LET h == SaveToHistory(history, historyIndex, Snapshot(data, positions))
     IN /\ history' = h.history
        /\ historyIndex' = h.historyIndex
  /\ UNCHANGED <<storeVars, propVars, cellVars, memoVars, simVars, selVars, viewVars,
                 lifeVars>>

\* the data becomes the snapshot the history holds at index i
RestoreFromHistory(i) ==
  /\ historyIndex' = i
  /\ UNCHANGED history
  /\ WriteData([nodes |-> history[i + 1].nodes, edges |-> history[i + 1].edges],
               history[i + 1].positions, selectedNodeIds, selectedEdgeIds)

\* graphStore.undo
Undo == historyIndex > 0 /\ RestoreFromHistory(historyIndex - 1)

\* graphStore.redo
Redo == historyIndex < Len(history) - 1 /\ RestoreFromHistory(historyIndex + 1)

\* the nodes and edges the editor works with, and the graphs a reload brings
EditNodes == {PlainNode(i, "exercise") : i \in 1..MaxEdits}

EditEdges == {EdgePool[i] : i \in 1..MaxEdits}

ReloadGraphs ==
  {[nodes |-> [i \in 1..k |-> PlainNode(i, "exercise")], edges |-> SubSeq(EdgePool, 1, j)] :
     k \in 0..MaxEdits, j \in 0..MaxEdits}

NextStore ==
  \/ \E g \in ReloadGraphs : SetGraphData(g)
  \/ \E n \in EditNodes : AddNode(n)
  \/ \E n \in EditNodes : RemoveNode(n.id)
  \/ \E e \in EditEdges : AddEdge(e)
  \/ \E e \in EditEdges : RemoveEdge(e.id)
  \/ \E n \in EditNodes : MoveNode(n.id, MaxCoord)
  \/ \E i \in 1..MaxEdits, mod \in Modifiers : NodeClick(i, mod)
  \/ \E e \in EditEdges, multi \in BOOLEAN : SelectEdgeById(e.id, multi)
  \/ SelectEverything
  \/ BackgroundClick
  \/ \E types \in {NodeTypeUniverse \ {"exercise"}, NodeTypeUniverse} :
       SetNodeTypeFilter(types)
  \/ \E types \in {{}, EdgeTypeUniverse} : SetEdgeTypeFilter(types)
  \/ \E q \in {<<>>, <<"k", "N">>} : SetQuery(q)
  \/ SaveHistory
  \/ Undo
  \/ Redo
  \/ ZoomGesture(OptimizedMaxZoomTenths)
  \/ ZoomGesture(Identity.zoom)
  \/ \E x \in Points : PanGesture(x)
  \/ ResetViewport
  \/ MinimapClick(MaxCoord)

\* GraphCanvasOptimized, the canvas whose gestures write the store, mounted on the
\* store as the module creates it: no graph loaded yet
InitStore ==
  /\ InitSelect
  /\ component = "GraphCanvasOptimized"
  /\ data = [nodes |-> <<>>, edges |-> <<>>]

SpecStore == InitStore /\ [][NextStore]_vars

(***************************************************************************)
(* The life of a canvas: the timers its renders leave pending, the window  *)
(* listeners, and the unmount.                                             *)
(***************************************************************************)
lifeFrame == <<storeVars, propVars, cellVars, memoVars, component, positions, alphaTarget,
               dragging, pointer, released, tickedSinceMove, selVars, histVars, viewVars>>

\* the timers after a run of the canvas's effect that built the simulation or failed to:
\* GraphCanvasOptimized.render sets a stop timer and clears none of the earlier ones;
\* D3ForceGraph's effect cleanup clears the interval before initializeGraph sets the next
TimersAfterRender(c, failed, timers) ==
  IF c = "GraphCanvasOptimized"
    THEN [ownTimer |-> ~failed,
          staleTimers |-> timers.staleTimers \/ timers.ownTimer,
          forceInterval |-> timers.forceInterval,
          isSimulationRunning |-> IF failed THEN timers.isSimulationRunning ELSE TRUE]
    ELSE [ownTimer |-> timers.ownTimer,
          staleTimers |-> timers.staleTimers,
          forceInterval |-> ~failed,
          isSimulationRunning |-> timers.isSimulationRunning]

NoTimers ==
  [ownTimer |-> FALSE, staleTimers |-> FALSE, forceInterval |-> FALSE,
   isSimulationRunning |-> FALSE]

Timers ==
  [ownTimer |-> ownTimer, staleTimers |-> staleTimers, forceInterval |-> forceInterval,
   isSimulationRunning |-> isSimulationRunning]

SetTimers(t) ==
  /\ ownTimer' = t.ownTimer
  /\ staleTimers' = t.staleTimers
  /\ forceInterval' = t.forceInterval
  /\ isSimulationRunning' = t.isSimulationRunning

\* either canvas after its first render
InitLife ==
  /\ InitCanvas
  /\ expandedClusters = {}
  /\ mounted = TRUE
  /\ LET t == TimersAfterRender(component, renderFailed, NoTimers)
     IN /\ ownTimer = t.ownTimer
        /\ staleTimers = t.staleTimers
        /\ forceInterval = t.forceInterval
        /\ isSimulationRunning = t.isSimulationRunning
  /\ lateWrite = FALSE

\* the window's resize listener: GraphCanvasOptimized renders again, D3ForceGraph
\* re-centres its simulation and restarts it
WindowResize ==
  /\ mounted
  /\ UNCHANGED <<lifeFrame, mounted, lateWrite>>
  /\ IF component = "GraphCanvasOptimized"
       THEN /\ Rebuild(TRUE, data, visibleData, positions)
            /\ SetTimers(TimersAfterRender(component, renderFailed', Timers))
       ELSE /\ simRunning' = ~renderFailed
            /\ UNCHANGED <<simNodes, links, renderFailed, painted, ownTimer, staleTimers,
                           forceInterval, isSimulationRunning>>

\* D3ForceGraph's space key: simulation.alpha(0.3).restart()
SpaceKey ==
  /\ mounted
  /\ component = "D3ForceGraph"
  /\ ~renderFailed
  /\ simRunning' = TRUE
  /\ UNCHANGED <<lifeFrame, simNodes, links, renderFailed, painted, lifeVars>>

\* the stop timer of the latest render fires: it stops that render's simulation, the
\* current one, and calls setIsSimulationRunning(false)
StopTimerFires ==
  /\ ownTimer
  /\ ownTimer' = FALSE
  /\ simRunning' = FALSE
  /\ isSimulationRunning' = FALSE
  /\ lateWrite' = (lateWrite \/ ~mounted)
  /\ UNCHANGED <<lifeFrame, simNodes, links, renderFailed, painted, mounted, staleTimers,
                 forceInterval>>

\* a stop timer of an earlier render fires: its simulation was stopped when the next
\* one was built, and it calls setIsSimulationRunning(false); others may remain
StaleStopTimerFires ==
  /\ staleTimers
  /\ staleTimers' \in BOOLEAN
  /\ isSimulationRunning' = FALSE
  /\ lateWrite' = (lateWrite \/ ~mounted)
  /\ UNCHANGED <<lifeFrame, simNodes, links, renderFailed, painted, simRunning, mounted, ownTimer,
                 forceInterval>>

\* D3ForceGraph's interval fires: applyGentleForces nudges the velocities of the nodes
\* and sets the simulation's alpha
GentleForces ==
  /\ forceInterval
  /\ lateWrite' = (lateWrite \/ ~mounted)
  /\ UNCHANGED <<lifeFrame, simNodes, links, renderFailed, painted, simRunning, mounted, ownTimer,
                 staleTimers, forceInterval, isSimulationRunning>>

\* the page drops the canvas: D3ForceGraph's effect cleanup removes the key listener,
\* clears the interval and stops the simulation; GraphCanvasOptimized's stops the
\* simulation
Unmount ==
  /\ mounted
  /\ mounted' = FALSE
  /\ simRunning' = FALSE
  /\ forceInterval' = FALSE
  /\ UNCHANGED <<lifeFrame, simNodes, links, renderFailed, painted, ownTimer, staleTimers,
                 isSimulationRunning, lateWrite>>

NextLife ==
  \/ WindowResize
  \/ SpaceKey
  \/ StopTimerFires
  \/ StaleStopTimerFires
  \/ GentleForces
  \/ Unmount
  \/ \E m \in [1..Len(simNodes) -> Points] : Tick(m)

SpecLife == InitLife /\ [][NextLife]_vars

(***************************************************************************)
(* Properties of the derived pipeline, checked under Spec.                 *)
(***************************************************************************)
VisibleNodeIds == SeqToSet(IdsOf(visibleData.nodes))

\* the result of the text and type filters, the input of the importance cap
FilteredData ==
  TypeStage(SearchStage(clusteredData, searchQuery), nodeTypes, edgeTypes)

\* whether label contains the query, case-insensitively
Matches(label, query) == Includes(ToLowerCase(label), ToLowerCase(query))

\* every edge of the loaded graph joins two of its nodes
WellFormedData ==
  \A k \in 1..Len(data.edges) :
    /\ SeqIncludes(IdsOf(data.nodes), data.edges[k].source)
    /\ SeqIncludes(IdsOf(data.nodes), data.edges[k].target)

\* C1: every edge of the visible edge set has its source and its target in the
\* visible node set returned with it (stated here for the graphs whose own edges all
\* join two of their nodes, where a dangling edge can only come from the filter).
C1_NoDanglingEdges ==
  WellFormedData =>
  \A k \in 1..Len(visibleData.edges) :
    /\ visibleData.edges[k].source \in VisibleNodeIds
    /\ visibleData.edges[k].target \in VisibleNodeIds

\* C2: once a node type is removed from the active set, the visible output holds no
\* node of that type and no edge incident to a node of that type.
C2_TypeFilterRemovesNodesAndEdges ==
  \A i \in 1..Len(data.nodes) :
    data.nodes[i].type \notin nodeTypes =>
      /\ data.nodes[i].id \notin VisibleNodeIds
      /\ \A k \in 1..Len(visibleData.edges) :
           /\ visibleData.edges[k].source # data.nodes[i].id
           /\ visibleData.edges[k].target # data.nodes[i].id

\* C3: the node list of the Clustering Reducer holds each node id at most once.
C3_NoDuplicateNodes ==
  \A i, j \in 1..Len(clusteredData.nodes) :
    clusteredData.nodes[i].id = clusteredData.nodes[j].id => i = j

\* C4: with clustering enabled, the nodes of an active type T are replaced by a cluster
\* node exactly when there are more than clusterThreshold of them and cluster_T is not
\* expanded; then there is one cluster node for T, its childNodes are the ids of the
\* nodes of type T, and none of them is left as an individual node.
C4_ClusterIffAboveThreshold ==
  enableClustering =>
    \A t \in nodeTypes :
      LET members == {i \in 1..Len(data.nodes) : data.nodes[i].type = t}
          clusterAt == {k \in 1..Len(clusteredData.nodes) :
                          /\ clusteredData.nodes[k].isClusterNode
                          /\ clusteredData.nodes[k].id = ClusterIdOf(t)}
      IN /\ clusterAt # {} <=>
              (Cardinality(members) > clusterThreshold
                 /\ ClusterIdOf(t) \notin expandedClusters)
         /\ clusterAt # {} =>
              /\ Cardinality(clusterAt) = 1
              /\ \A k \in clusterAt :
                   /\ Len(clusteredData.nodes[k].childNodes) = Cardinality(members)
                   /\ SeqToSet(clusteredData.nodes[k].childNodes)
                        = {data.nodes[i].id : i \in members}
              /\ \A k \in 1..Len(clusteredData.nodes) :
                   clusteredData.nodes[k].type # t

\* C4 witness: one group above the threshold is drawn as a cluster of all its members
\* while a group of exactly clusterThreshold nodes of another active type is not.
C4_Witness ==
  /\ enableClustering
  /\ \E k \in 1..Len(clusteredData.nodes) :
       /\ clusteredData.nodes[k].isClusterNode
       /\ Len(clusteredData.nodes[k].childNodes) = clusterThreshold + 1
  /\ \E t \in nodeTypes :
       /\ Cardinality({i \in 1..Len(data.nodes) : data.nodes[i].type = t}) = clusterThreshold
       /\ \E k \in 1..Len(clusteredData.nodes) : clusteredData.nodes[k].type = t

\* C5: in mode 'important', while no more than maxVisibleNodes nodes are left after the
\* text and type filters, the importance cap removes nothing: the filtered edges are
\* the visible edges, and the filtered nodes are the visible nodes up to the zoom cull.
C5_CapIdleAtOrBelowLimit ==
  (visibilityMode = "important" /\ Len(FilteredData.nodes) <= maxVisibleNodes) =>
    /\ visibleData = ZoomStage(FilteredData, zoomLevel, data.nodes, data.edges)
    /\ visibleData.edges = FilteredData.edges
    /\ zoomLevel >= CullZoomTenths => visibleData.nodes = FilteredData.nodes

\* C5 witness: exactly maxVisibleNodes filtered nodes in mode 'important', with an edge
\* among the filtered edges, all of them visible.
C5_Witness ==
  /\ visibilityMode = "important"
  /\ Len(FilteredData.nodes) = maxVisibleNodes
  /\ FilteredData.edges # <<>>
  /\ visibleData = FilteredData

\* C6 as claimed: a (non-empty) search query that is a case-insensitive substring of no
\* node label of the graph gives an empty node set and an empty edge set.
C6_NoGraphLabelMatchGivesEmpty ==
  (/\ searchQuery # <<>>
   /\ \A i \in 1..Len(data.nodes) : ~Matches(data.nodes[i].label, searchQuery)) =>
    visibleData.nodes = <<>> /\ visibleData.edges = <<>>

\* C6 as amended: a non-empty search query that is a case-insensitive substring of no
\* label of the Clustering Reducer's output, the labels of the cluster nodes included,
\* gives an empty node set and an empty edge set.
C6_NoClusteredLabelMatchGivesEmpty ==
  (/\ searchQuery # <<>>
   /\ \A i \in 1..Len(clusteredData.nodes) :
        ~Matches(clusteredData.nodes[i].label, searchQuery)) =>
    visibleData.nodes = <<>> /\ visibleData.edges = <<>>

\* C6 witness: a graph with nodes and edges, a query that matches none of the labels of
\* the Clustering Reducer's output, and an empty result.
C6_Witness ==
  /\ searchQuery # <<>>
  /\ clusteredData.nodes # <<>>
  /\ clusteredData.edges # <<>>
  /\ \A i \in 1..Len(clusteredData.nodes) :
       ~Matches(clusteredData.nodes[i].label, searchQuery)
  /\ visibleData.nodes = <<>>
  /\ visibleData.edges = <<>>

\* C8: the visible nodes are drawn in full detail at every zoom factor of 0.7 or more
\* and in reduced detail below 0.7.
C8_FullDetailFromLodZoom ==
  visibleData.nodes # <<>> =>
    drawnTier = IF zoomLevel >= LodZoomTenths THEN "full" ELSE "reduced"

\* C9: whatever happened before, the cluster membership, the visible sets and the tier
\* drawn are those a fresh run of the pipeline gives on the current graph, filter state,
\* expandedClusters, visibility mode, cap and zoom.
C9_PipelineDependsOnCurrentInputsOnly ==
  /\ clusteredData = ClusteredData(data.nodes, data.edges, nodeTypes, enableClustering,
                                   clusterThreshold, expandedClusters)
  /\ visibleData = VisibleData(
                     ClusteredData(data.nodes, data.edges, nodeTypes, enableClustering,
                                   clusterThreshold, expandedClusters),
                     searchQuery, nodeTypes, edgeTypes, visibilityMode, maxVisibleNodes,
                     zoomLevel, data.nodes, data.edges)
  /\ drawnTier = DetailTier(zoomLevel)

\* C9 witness: a state reached through a cluster expansion, a zoom-out below the cull
\* zoom and a search, with nodes still visible.
C9_Witness ==
  /\ expandedClusters # {}
  /\ zoomLevel < CullZoomTenths
  /\ searchQuery # <<>>
  /\ visibleData.nodes # <<>>
  /\ Len(visibleData.nodes) < Len(clusteredData.nodes)

(***************************************************************************)
(* Properties of the mounted canvas: C7 is checked under SpecInteract, C10 *)
(* under SpecLoad.                                                         *)
(***************************************************************************)
\* the position recorded for a node: the store's node.position, and for a cluster
\* node, which the store does not hold, the position of its simulation node
RecordedPosition(id) ==
  IF id \in DOMAIN positions THEN positions[id]
  ELSE LET i == CHOOSE k \in 1..Len(simNodes) : simNodes[k].id = id
       IN <<simNodes[i].x>>

\* C7: when a node is dragged to pointer position P and released, the position
\* recorded for that node, read before any further simulation tick, is P.
C7_ReleaseRecordsPointerPosition ==
  released # <<>> => RecordedPosition(released[1].id) = <<released[1].p>>

\* C10: the links D3ForceGraph hands to the simulation are exactly the edges of the
\* data whose source and target are both ids of nodes of the data, in the data's order;
\* every other edge is dropped and the set-up does not fail.
C10_MissingEndpointEdgesDropped ==
  component = "D3ForceGraph" =>
    LET ids == {data.nodes[i].id : i \in 1..Len(data.nodes)}
        Valid(e) == e.source \in ids /\ e.target \in ids
    IN /\ ~renderFailed
       /\ \A k \in 1..Len(links) : Valid(links[k])
       /\ \A k \in 1..Len(data.edges) :
            Valid(data.edges[k]) => \E j \in 1..Len(links) : links[j] = data.edges[k]
       /\ Len(links) = Cardinality({k \in 1..Len(data.edges) : Valid(data.edges[k])})
       /\ \A j1, j2 \in 1..Len(links) :
            j1 < j2 =>
              \E k1, k2 \in 1..Len(data.edges) :
                k1 < k2 /\ data.edges[k1] = links[j1] /\ data.edges[k2] = links[j2]

\* D3ForceGraph was built on a loaded graph holding an edge with both endpoints and an
\* edge whose source is a node and whose target is not; the first survived, the second
\* was dropped, and the simulation runs
C10_Witness ==
  /\ component = "D3ForceGraph"
  /\ simRunning
  /\ Len(simNodes) = Len(data.nodes)
  /\ \E k \in 1..Len(data.edges) :
       /\ SeqIncludes(IdsOf(data.nodes), data.edges[k].source)
       /\ ~SeqIncludes(IdsOf(data.nodes), data.edges[k].target)
  /\ Len(links) > 0
  /\ Len(links) < Len(data.edges)

(***************************************************************************)
(* Properties of the clicks, checked under SpecSelect.                     *)
(***************************************************************************)
\* C11: a click on a node or an edge with no modifier leaves the selection equal to that
\* one element; a click with ctrl, meta or shift leaves it equal to the selection before
\* plus that element; a click on the background or an explicit clear leaves both
\* selectedNodeIds and selectedEdgeIds empty.
C11_ClickSelectionSemantics ==
  [][/\ \A i \in 1..(2 * MaxNodes), mod \in Modifiers :
          (i <= Len(simNodes) /\ ~simNodes[i].isClusterNode /\ NodeClick(i, mod)) =>
            /\ selectedNodeIds' = (IF mod = "none" THEN {} ELSE selectedNodeIds)
                                    \cup {simNodes[i].id}
            /\ selectedEdgeIds' = IF mod = "none" THEN {} ELSE selectedEdgeIds
     /\ \A k \in 1..MaxEdges, mod \in Modifiers :
          EdgeClick(k, mod) =>
            /\ selectedEdgeIds' = (IF mod = "none" THEN {} ELSE selectedEdgeIds)
                                    \cup {links[k].id}
            /\ selectedNodeIds' = IF mod = "none" THEN {} ELSE selectedNodeIds
     /\ (BackgroundClick \/ EscapeKey) =>
          selectedNodeIds' = {} /\ selectedEdgeIds' = {}]_vars

\* C18: a click on a cluster node toggles the membership of its id in expandedClusters and
\* leaves the selection as it was, and no cluster id is ever in selectedNodeIds.
C18_ClusterClickTogglesOnly ==
  [][/\ selectedNodeIds' \cap ClusterIds = {}
     /\ \A i \in 1..(2 * MaxNodes), mod \in Modifiers :
          (/\ component = "GraphCanvasOptimized"
           /\ i <= Len(simNodes)
           /\ simNodes[i].isClusterNode
           /\ NodeClick(i, mod)) =>
            /\ (simNodes[i].id \in expandedClusters') = (simNodes[i].id \notin expandedClusters)
            /\ expandedClusters' \ {simNodes[i].id} = expandedClusters \ {simNodes[i].id}
            /\ selectedNodeIds' = selectedNodeIds
            /\ selectedEdgeIds' = selectedEdgeIds
            /\ lastSelected' = lastSelected]_vars

\* C18 witness: a node is selected, a cluster has been expanded by a click, and no
\* cluster id is selected.
C18_Witness ==
  /\ component = "GraphCanvasOptimized"
  /\ expandedClusters # {}
  /\ selectedNodeIds # {}
  /\ selectedNodeIds \cap ClusterIds = {}

\* C13: after any sequence of zoom gestures, pans, viewport resets and minimap
\* navigations the zoom factor of the view lies between 0.1x and 10x, and in each
\* canvas a zoom gesture that asks for a scale in that range brings the view to it.
C13_ZoomClampedAndReachable ==
  [][/\ transform'.k \in MinZoomTenths..MaxZoomTenths
     /\ viewport'.zoom \in MinZoomTenths..MaxZoomTenths
     /\ \A k \in ZoomTargets \cap (MinZoomTenths..MaxZoomTenths) :
          ZoomGesture(k) => transform'.k = k]_vars

\* C12: the viewport starts as the identity, and a step changes it only if it is a
\* pan or zoom gesture, resetViewport or a minimap click: setGraphData, the node and
\* edge edits, the selection and filter actions, saveToHistory, undo, redo and
\* updateNodePosition all leave it as it was.
C12_ViewportChangedOnlyByViewActions ==
  /\ viewport = Identity
  /\ [][viewport' # viewport =>
          \/ \E k \in ZoomTargets : ZoomGesture(k)
          \/ \E x \in Points : PanGesture(x)
          \/ ResetViewport
          \/ \E x \in Points : MinimapClick(x)]_vars

\* a viewport away from the identity in a store that was loaded, edited, saved to the
\* history and selected in
C12_Witness ==
  /\ viewport # Identity
  /\ data.nodes # <<>>
  /\ historyIndex > 0
  /\ selectedNodeIds # {}
  /\ searchQuery # <<>>

\* C14: once the canvas is unmounted its simulation is stopped, its interval is
\* cleared, and no timer, interval or simulation callback of an earlier render has run
\* since.
C14_NothingRunsAfterUnmount ==
  ~mounted => ~simRunning /\ ~forceInterval /\ ~lateWrite

\* C16: in the output of the clustering stage no edge runs from a cluster node to
\* that same cluster node, and no edge still points at a member of a collapsed group.
C16_NoClusterSelfLoops ==
  \A k \in 1..Len(clusteredData.edges) :
    LET e == clusteredData.edges[k]
    IN /\ ~(e.source = e.target /\ e.source \in ClusterIds)
       /\ \A i \in 1..Len(clusteredData.nodes) :
            clusteredData.nodes[i].isClusterNode =>
              /\ ~SeqIncludes(clusteredData.nodes[i].childNodes, e.source)
              /\ ~SeqIncludes(clusteredData.nodes[i].childNodes, e.target)

\* C15: with maxVisibleNodes = 0 the visibility filter returns, for every well-formed
\* graph, filter state, visibility mode and zoom, a node list and an edge list whose
\* edges all have both endpoints in the node list.
C15_ZeroCapGivesValidResult ==
  (maxVisibleNodes = 0 /\ WellFormedData) =>
    \A k \in 1..Len(visibleData.edges) :
      /\ visibleData.edges[k].source \in VisibleNodeIds
      /\ visibleData.edges[k].target \in VisibleNodeIds

\* C17: with clustering enabled, the edge list the clustering stage returns for a
\* well-formed graph holds at most one edge for each ordered (source, target) pair.
C17_OneEdgePerPair ==
  (enableClustering /\ WellFormedData) =>
    \A j, k \in 1..Len(clusteredData.edges) :
      (/\ clusteredData.edges[j].source = clusteredData.edges[k].source
       /\ clusteredData.edges[j].target = clusteredData.edges[k].target) => j = k

\* C19: while a node is dragged, once a tick has run after the latest drag event the
\* node is pinned to, and sits at, the pointer position of that event: the forces of
\* the tick did not move it.
C19_DragWinsOverTick ==
  (dragging # 0 /\ tickedSinceMove) =>
    /\ simNodes[dragging].fx = <<pointer>>
    /\ simNodes[dragging].x = pointer

\* a tick during a drag that moved another node away from the pointer position
C19_Witness ==
  /\ dragging # 0
  /\ tickedSinceMove
  /\ simNodes[dragging].x = pointer
  /\ \E j \in 1..Len(simNodes) : j # dragging /\ simNodes[j].x # pointer

\* C20: right after a drag ends no node of the simulation is pinned, and the
\* simulation is running, reheated for the neighbours to settle.
C20_ReleaseUnpinsAndReheats ==
  released # <<>> =>
    /\ \A i \in 1..Len(simNodes) : simNodes[i].fx = <<>>
    /\ simRunning

(***************************************************************************)
(* C21: in GraphCanvasOptimized a render of more than LargeGraphNodes      *)
(* nodes is pre-stepped at most PreStepLimit iterations and its simulation *)
(* is stopped from then on: no drag start, drag, release or tick of that   *)
(* render sets it running again.                                           *)
(***************************************************************************)
C21_LargeGraphPreSteppedAndFrozen ==
  (component = "GraphCanvasOptimized" /\ ~renderFailed /\ Len(simNodes) > LargeGraphNodes)
    => /\ ~simRunning
       /\ PreStepTicks(Len(simNodes)) \in 1..PreStepLimit

\* a large render whose node is being dragged, with the pre-step cut at the limit
C21_Witness ==
  /\ component = "GraphCanvasOptimized"
  /\ Len(simNodes) > LargeGraphNodes
  /\ PreStepTicks(Len(simNodes)) < 2 * Len(simNodes)
  /\ dragging # 0
  /\ simNodes[dragging].fx = <<pointer>>
  /\ pointer # simNodes[dragging].x

\* the importance weight the cap sorts a filtered node by
CapWeight(n) == ImportanceOf(n.id, data.nodes, data.edges)

\* C22: in mode 'important', when more than maxVisibleNodes nodes pass the text and type
\* filters (and the zoom cull is idle), exactly maxVisibleNodes of them are visible, every
\* visible one outranks every pruned one by weight or, at equal weight, by its place in
\* the list, and the visible edges are the filtered edges between two visible nodes.
C22_CapKeepsExactlyTheTopNodes ==
  (visibilityMode = "important" /\ Len(FilteredData.nodes) > maxVisibleNodes
     /\ zoomLevel >= CullZoomTenths) =>
    LET F == FilteredData
    IN /\ Len(visibleData.nodes) = maxVisibleNodes
       /\ visibleData.nodes = SelectSeq(F.nodes, LAMBDA n : n.id \in VisibleNodeIds)
       /\ \A i, j \in 1..Len(F.nodes) :
            (F.nodes[i].id \in VisibleNodeIds /\ F.nodes[j].id \notin VisibleNodeIds) =>
              \/ CapWeight(F.nodes[i]) > CapWeight(F.nodes[j])
              \/ CapWeight(F.nodes[i]) = CapWeight(F.nodes[j]) /\ i < j
       /\ visibleData.edges =
            SelectSeq(F.edges, LAMBDA e : e.source \in VisibleNodeIds
                                          /\ e.target \in VisibleNodeIds)

(***************************************************************************)
(* Re-renders of a canvas whose simulation has moved its nodes: ticks and  *)
(* drags change the drawn positions, and a click, a search or a zoom       *)
(* gesture makes the canvas build its nodes again from the store.  The     *)
(* search box is typed into while no node is held.                         *)
(***************************************************************************)
NextPersist ==
  \/ \E m \in [1..Len(simNodes) -> Points] : Tick(m)
  \/ \E i \in 1..LargeGraphNodes : DragStart(i)
  \/ DragMove(MaxCoord)
  \/ DragEnd
  \/ \E i \in 1..LargeGraphNodes : NodeClick(i, "none")
  \/ BackgroundClick
  \/ \E q \in {<<>>, <<"k", "N">>} : dragging = 0 /\ SetQuery(q)
  \/ \E k \in {LodZoomTenths, Identity.zoom} : ZoomGesture(k)

\* a graph of at most LargeGraphNodes nodes: its simulation runs and is never pre-stepped
InitPersist == InitSelect /\ Len(data.nodes) <= LargeGraphNodes /\ Len(data.edges) <= MaxEdits

SpecPersist == InitPersist /\ [][NextPersist]_vars

\* C23: when a change of the selection, the search query or the zoom re-renders the
\* canvas, every node drawn before and after starts the new render (one that is not
\* pre-stepped) at the position it had at the end of the previous one.
C23_PositionsPersistAcrossRerenders ==
  [][(/\ \/ Selection' # Selection
         \/ searchQuery' # searchQuery
         \/ zoomLevel' # zoomLevel
      /\ expandedClusters' = expandedClusters
      /\ Len(simNodes') <= LargeGraphNodes)
     => \A i \in 1..Len(simNodes), j \in 1..Len(simNodes') :
          simNodes[i].id = simNodes'[j].id => simNodes'[j].x = simNodes[i].x]_vars

\* C24: every selected node id is the id of a node of the store's graph, and every
\* selected edge id is the id of one of its edges.
C24_SelectionRefersToTheGraph ==
  /\ selectedNodeIds \subseteq SeqToSet(IdsOf(data.nodes))
  /\ selectedEdgeIds \subseteq SeqToSet(IdsOf(data.edges))

\* C25: the history always holds between one and HistoryLimit snapshots and historyIndex
\* is the index of one of them; right after saveToHistory historyIndex is the index of
\* the last snapshot (nothing to redo), also when the oldest snapshot was evicted.
C25_HistoryBounds ==
  /\ [](/\ Len(history) \in 1..HistoryLimit
        /\ historyIndex \in 0..(Len(history) - 1))
  /\ [][SaveHistory => historyIndex' = Len(history') - 1]_vars

\* a full history whose first snapshot was stored by saveToHistory (it carries a moved
\* node, which no loaded graph does): the snapshot of the load was evicted
C25_Witness ==
  /\ Len(history) = HistoryLimit
  /\ historyIndex = Len(history) - 1
  /\ \E id \in DOMAIN history[1].positions : history[1].positions[id] # <<>>

\* C26: in GraphCanvasOptimized, as long as the stop timer of the latest render is
\* pending (its simulation was not yet stopped by it), isSimulationRunning is true: no
\* stop timer of an earlier render has set it to false.
C26_IndicatorTracksCurrentSimulation ==
  (component = "GraphCanvasOptimized" /\ ownTimer) => isSimulationRunning

(***************************************************************************)
(* Painting in GraphCanvasOptimized: the running simulation's timer keeps  *)
(* dispatching 'tick', so a tick that stays possible is eventually taken.  *)
(***************************************************************************)
InitPaint == InitInteract /\ component = "GraphCanvasOptimized"

SpecPaint ==
  /\ InitPaint
  /\ [][NextInteract]_vars
  /\ WF_vars(\E m \in [1..Len(simNodes) -> Points] : Tick(m))

\* a render that drew nodes
RenderedGraph == component = "GraphCanvasOptimized" /\ ~renderFailed /\ simNodes # <<>>

\* every drawn node is painted where the simulation has it
PaintedAtComputed == \A i \in 1..Len(simNodes) : painted[i] = <<simNodes[i].x>>

\* C27: after every render of GraphCanvasOptimized that drew nodes, of whatever size,
\* the drawing eventually shows every node at the position the simulation computed.
C27_PaintedEventually == RenderedGraph ~> PaintedAtComputed

\* C28: every node of the graph is in the Clustering Reducer's output either as an
\* individual node, and then in no cluster node's childNodes, or not individually, and
\* then in the childNodes of exactly one cluster node; and an endpoint of an output edge
\* is a node of the output whenever that endpoint of the original edge is a node of the
\* graph.
C28_ClusteringConservesNodes ==
  LET cd == clusteredData
      outIds == SeqToSet(IdsOf(cd.nodes))
      Individual(id) ==
        \E j \in 1..Len(cd.nodes) : ~cd.nodes[j].isClusterNode /\ cd.nodes[j].id = id
      Holders(id) ==
        {j \in 1..Len(cd.nodes) :
           cd.nodes[j].isClusterNode /\ SeqIncludes(cd.nodes[j].childNodes, id)}
  IN /\ \A i \in 1..Len(data.nodes) :
          \/ Individual(data.nodes[i].id) /\ Holders(data.nodes[i].id) = {}
          \/ ~Individual(data.nodes[i].id) /\ Cardinality(Holders(data.nodes[i].id)) = 1
     /\ \A k \in 1..Len(cd.edges), o \in 1..Len(data.edges) :
          cd.edges[k].id = data.edges[o].id =>
            /\ SeqIncludes(IdsOf(data.nodes), data.edges[o].source)
                 => cd.edges[k].source \in outIds
            /\ SeqIncludes(IdsOf(data.nodes), data.edges[o].target)
                 => cd.edges[k].target \in outIds

\* C28 witness: a cluster node, an individual node of an inactive type (pushed by the
\* second pass), and an output edge rewritten to run from the cluster node to it.
C28_Witness ==
  \E j, i \in 1..Len(clusteredData.nodes), k \in 1..Len(clusteredData.edges) :
    /\ clusteredData.nodes[j].isClusterNode
    /\ ~clusteredData.nodes[i].isClusterNode
    /\ clusteredData.nodes[i].type \notin nodeTypes
    /\ clusteredData.edges[k].source = clusteredData.nodes[j].id
    /\ clusteredData.edges[k].target = clusteredData.nodes[i].id

\* the node that stands for a node of the graph in the Clustering Reducer's output:
\* the cluster node that lists it among its childNodes, or the node itself
Representative(id) ==
  RewriteEndpoint(id, SelectSeq(clusteredData.nodes, LAMBDA n : n.isClusterNode))

\* C29: for every edge of the graph whose type is active and whose endpoints have two
\* distinct representatives, both visible, the visible edge set holds an edge between
\* the two representatives.
C29_ActiveEdgeStaysConnected ==
  \A o \in 1..Len(data.edges) :
    LET ru == Representative(data.edges[o].source)
        rv == Representative(data.edges[o].target)
    IN (/\ data.edges[o].type \in edgeTypes
        /\ ru # rv
        /\ ru \in VisibleNodeIds
        /\ rv \in VisibleNodeIds)
       => \E k \in 1..Len(visibleData.edges) :
            {visibleData.edges[k].source, visibleData.edges[k].target} = {ru, rv}

\* C30: under a non-empty search query, with the importance cap idle and the zoom cull
\* idle, every node of an active type whose label contains the query is in the visible
\* node set, as itself or as the cluster node that holds it.
C30_SearchFindsCollapsedNodes ==
  (/\ searchQuery # <<>>
   /\ ~CapEngages(FilteredData, visibilityMode, maxVisibleNodes)
   /\ zoomLevel >= CullZoomTenths)
  => \A i \in 1..Len(data.nodes) :
       (Matches(data.nodes[i].label, searchQuery) /\ data.nodes[i].type \in nodeTypes)
         => Representative(data.nodes[i].id) \in VisibleNodeIds

=============================================================================
